---- MODULE Spec2Model ----
(***************************************************************************)
(* The Fathom webhook relay.  The repository holds two deployable servers  *)
(* for POST /webhook/fathom and GET /health:                               *)
(*   app.py   de-duplicates on call_id and posts through a Slack webhook   *)
(*            URL;                                                         *)
(*   main.py  analyses the transcript with Anthropic and posts through a   *)
(*            Slack bot client; it keeps no set of processed calls.        *)
(* One process runs one of the two files; program says which.  Requests    *)
(* are served by concurrent threads of that process.                       *)
(***************************************************************************)
EXTENDS Integers, Sequences, FiniteSets, TLC

(* ---------------------------- bounds ---------------------------------- *)
\* number of deliveries (each served by its own thread) in one process lifetime
MaxReqs == 2
\* number of distinct call ids the provider sends
NumCallIds == 2
\* longest provider reply, in tokens
MaxTextLen == 4

Reqs == 1..MaxReqs
CallIds == 1..NumCallIds

(* ---------------------------- JSON values ----------------------------- *)
\* A JSON member of the request body: missing, null, a string, a number or a list.
Absent == [t |-> "absent"]
Null == [t |-> "null"]
Str(s) == [t |-> "str", s |-> s]
Num(n) == [t |-> "num", n |-> n]
List(l) == [t |-> "list", items |-> l]

CallId(c) == [t |-> "id", c |-> c]

Keys == {"event", "call_id", "title", "date", "duration_seconds", "participants", "transcript"}

\* The end-to-end example event of the provider, for call id c.
CompletedEvent(c) ==
    [kind |-> "object",
     event |-> Str("call.completed"),
     call_id |-> CallId(c),
     title |-> Str("Sync"),
     date |-> Str("2024-01-02T10:00:00Z"),
     duration_seconds |-> Num(125),
     participants |-> List(<<"A", "B">>),
     transcript |-> Str("...")]

\* The JSON object {} : every member missing.
EmptyObject ==
    [kind |-> "object", event |-> Absent, call_id |-> Absent, title |-> Absent,
     date |-> Absent, duration_seconds |-> Absent, participants |-> Absent,
     transcript |-> Absent]

\* A body that is not JSON although the request says application/json.
Unparseable == [EmptyObject EXCEPT !.kind = "unparseable"]
\* A request without a JSON body (no body, or no JSON content type).
NoJson == [EmptyObject EXCEPT !.kind = "nojson"]

\* The deliveries the provider (or anyone else) sends: bodies that are no
\* JSON object, the example event for every call id, and the event for call
\* id 1 with its event tag, its call_id or its participants changed.
CommonBodies ==
    {Unparseable, NoJson, EmptyObject}
    \cup {CompletedEvent(c) : c \in CallIds}
    \cup {[CompletedEvent(1) EXCEPT !.event = e] : e \in {Absent, Str("call.started")}}
    \cup {[CompletedEvent(1) EXCEPT !.call_id = Absent]}
    \cup {[CompletedEvent(1) EXCEPT !.participants = Null]}

\* app.py also reads the date
AppBodies ==
    CommonBodies \cup {[CompletedEvent(1) EXCEPT !.date = d] : d \in {Absent, Null}}

\* main.py requires the transcript
MainBodies ==
    CommonBodies \cup {[CompletedEvent(1) EXCEPT !.transcript = x] : x \in {Absent, Str("")}}

NoBody == [EmptyObject EXCEPT !.kind = "none"]

(* ---------------------------- Python helpers --------------------------- *)
\* dict.get(key, default): the default only when the key is missing
Get(data, key, default) == IF data[key] = Absent THEN default ELSE data[key]

\* not x for a JSON value
Falsy(v) ==
    \/ v.t \in {"absent", "null"}
    \/ v.t = "str" /\ v.s = ""
    \/ v.t = "num" /\ v.n = 0
    \/ v.t = "list" /\ v.items = <<>>

\* not data for a parsed object: a dict is falsy when it has no member
EmptyDict(data) == \A k \in Keys : data[k] = Absent

VARIABLES
    program,            \* "app" (app.py) or "main" (main.py)
    SLACK_WEBHOOK_URL,  \* app.py:13, TRUE when non-empty
    ANTHROPIC_API_KEY,  \* main.py:29, TRUE when set
    SLACK_BOT_TOKEN,    \* main.py:30, TRUE when set
    processed_calls,    \* app.py:15
    pc,                 \* where each request's thread stands
    data,               \* the body each request carries
    response,           \* the HTTP response each request got
    notifier,           \* what each request did with post_to_slack
    health_response     \* the body of the last GET /health

vars == <<program, SLACK_WEBHOOK_URL, ANTHROPIC_API_KEY, SLACK_BOT_TOKEN,
          processed_calls, pc, data, response, notifier, health_response>>

config == <<program, SLACK_WEBHOOK_URL, ANTHROPIC_API_KEY, SLACK_BOT_TOKEN>>

(* ---------------------------- HTTP plumbing ---------------------------- *)
\* request.json / request.get_json(): what Flask hands the handler.  Invalid
\* JSON raises BadRequest; a request without a JSON body yields None or raises
\* (415 / 400), depending on the installed Flask; an object is returned parsed.
get_json(body) ==
    CASE body.kind = "unparseable" -> {"raise"}
      [] body.kind = "nojson" -> {"raise", "none"}
      [] OTHER -> {"dict"}

NoAnalysis == [kind |-> "none"]

\* jsonify(...), status: the members a handler may put in its answer
Reply(code, status, error, analysis) ==
    [code |-> code, status |-> status, error |-> error, analysis |-> analysis]

NoResponse == Reply(0, "-", "-", NoAnalysis)

\* a request that never reached post_to_slack
NotCalled == [called |-> FALSE, sent |-> FALSE, ok |-> FALSE, analysis |-> NoAnalysis]

\* what the chat backend does with one send
SlackOutcomes == {"ok", "rejected", "exception"}

(* ---------------------------- app.py ----------------------------------- *)
\* post_to_slack reporting failure when no webhook URL is configured
post_to_slack_strict(webhook_url, outcome) ==
    IF ~webhook_url
    THEN [called |-> TRUE, sent |-> FALSE, ok |-> FALSE, analysis |-> NoAnalysis]
    ELSE [called |-> TRUE, sent |-> TRUE, ok |-> (outcome = "ok"), analysis |-> NoAnalysis]

\* app.py:17-34
post_to_slack(webhook_url, outcome) ==
    IF ~webhook_url
    THEN [called |-> TRUE, sent |-> FALSE, ok |-> TRUE, analysis |-> NoAnalysis]
    ELSE [called |-> TRUE, sent |-> TRUE, ok |-> (outcome = "ok"), analysis |-> NoAnalysis]

\* the event test skipped when the body has no event member
not_completed_if_present(d) == d.event # Absent /\ d.event # Str("call.completed")

\* app.py:43  data.get('event') != 'call.completed'
not_completed(d) == Get(d, "event", Null) # Str("call.completed")

\* app.py:46  data.get('call_id'): None when the member is missing
call_id_of(d) == Get(d, "call_id", Null)

\* app.py:47  call_id in processed_calls
is_duplicate(call_id, processed) == call_id \in processed

\* app.py:50  processed_calls.add(call_id)
mark_processed(call_id, processed) == processed \cup {call_id}

\* app.py:52-63: the defaults, and whether slicing the date, dividing the
\* duration, joining the participants or measuring the transcript raises
normalize_raises(d) ==
    LET date == Get(d, "date", Str("N/A"))
        duration == Get(d, "duration_seconds", Num(0))
        participants == Get(d, "participants", List(<<>>))
        transcript == Get(d, "transcript", Str(""))
    IN  \/ date.t \notin {"str", "list"}
        \/ duration.t # "num"
        \/ participants.t \notin {"str", "list"}
        \/ transcript.t \notin {"str", "list"}

\* the answer telling a failed post apart
app_result_soft(success) ==
    Reply(200, IF success THEN "success" ELSE "failed", "-", NoAnalysis)

\* app.py:67-72: the answer after post_to_slack returned success
app_result(success) == Reply(200, "success", "-", NoAnalysis)

\* the except clause taking the mark back
app_fault_rollback(processed, call_id) == processed \ {call_id}

\* app.py:73-75: the except clause; processed_calls is left as it is
app_fault(processed, call_id) == processed

\* app.py:38-48: parse, validate, and the membership test
fathom_webhook_test(r) ==
    /\ program = "app"
    /\ pc[r] = "idle"
    /\ \E body \in AppBodies : \E parsed \in get_json(body) :
        /\ data' = [data EXCEPT ![r] = body]
        /\ IF parsed = "raise"
           THEN /\ response' = [response EXCEPT ![r] = Reply(500, "-", "exception", NoAnalysis)]
                /\ pc' = [pc EXCEPT ![r] = "done"]
           ELSE IF parsed = "none" \/ EmptyDict(body)
           THEN /\ response' = [response EXCEPT ![r] = Reply(400, "-", "No payload", NoAnalysis)]
                /\ pc' = [pc EXCEPT ![r] = "done"]
           ELSE IF not_completed(body)
           THEN /\ response' = [response EXCEPT ![r] = Reply(200, "ignored", "-", NoAnalysis)]
                /\ pc' = [pc EXCEPT ![r] = "done"]
           ELSE IF is_duplicate(call_id_of(body), processed_calls)
           THEN /\ response' = [response EXCEPT ![r] = Reply(200, "duplicate", "-", NoAnalysis)]
                /\ pc' = [pc EXCEPT ![r] = "done"]
           ELSE /\ response' = response
                /\ pc' = [pc EXCEPT ![r] = "insert"]
    /\ UNCHANGED <<config, processed_calls, notifier, health_response>>

\* app.py:50
fathom_webhook_insert(r) ==
    /\ program = "app"
    /\ pc[r] = "insert"
    /\ processed_calls' = mark_processed(call_id_of(data[r]), processed_calls)
    /\ pc' = [pc EXCEPT ![r] = "notify"]
    /\ UNCHANGED <<config, data, response, notifier, health_response>>

\* app.py:52-75
fathom_webhook_notify(r) ==
    /\ program = "app"
    /\ pc[r] = "notify"
    /\ pc' = [pc EXCEPT ![r] = "done"]
    /\ IF normalize_raises(data[r])
       THEN /\ response' = [response EXCEPT ![r] = Reply(500, "-", "exception", NoAnalysis)]
            /\ processed_calls' = app_fault(processed_calls, call_id_of(data[r]))
            /\ notifier' = notifier
       ELSE \E outcome \in SlackOutcomes :
            LET sent == post_to_slack(SLACK_WEBHOOK_URL, outcome)
            IN  /\ notifier' = [notifier EXCEPT ![r] = sent]
                /\ response' = [response EXCEPT ![r] = app_result(sent.ok)]
                /\ processed_calls' = processed_calls
    /\ UNCHANGED <<config, data, health_response>>

NoHealth == [status |-> "none"]

\* the count leaving out the None entry
app_health_body_ids(processed) ==
    [status |-> "healthy", processed_calls |-> Cardinality(processed \ {Null})]

\* app.py:77-83 (the timestamp is left out)
app_health_body(processed) ==
    [status |-> "healthy", processed_calls |-> Cardinality(processed)]

app_health ==
    /\ program = "app"
    /\ health_response' = app_health_body(processed_calls)
    /\ UNCHANGED <<config, processed_calls, pc, data, response, notifier>>

(* ---------------------------- main.py ---------------------------------- *)
\* The provider's reply text, as a sequence of tokens: a code fence (three backquotes),
\* the word "json", white space, a JSON object with the three members asked
\* for, a JSON value that is no object, and anything else.
Tokens == {"fence", "json", "ws", "obj", "arr", "junk"}
Texts == UNION {[1..n -> Tokens] : n \in 0..MaxTextLen}

\* messages.create(...): the call raises (network error, non-2xx status) or
\* yields a text
ProviderReplies ==
    {[kind |-> "error", why |-> w] : w \in {"APIConnectionError", "APIStatusError"}}
    \cup {[kind |-> "text", text |-> t] : t \in Texts}

Drop(s, n) == SubSeq(s, n + 1, Len(s))
DropLast(s, n) == SubSeq(s, 1, Len(s) - n)

\* str.strip(): white space leaves both ends
RECURSIVE lstrip(_)
lstrip(s) == IF s # <<>> /\ Head(s) = "ws" THEN lstrip(Tail(s)) ELSE s
RECURSIVE rstrip(_)
rstrip(s) == IF s # <<>> /\ s[Len(s)] = "ws" THEN rstrip(DropLast(s, 1)) ELSE s
strip(s) == rstrip(lstrip(s))

\* text.startswith(fence + "json")
starts_with_json_fence(s) == Len(s) >= 2 /\ s[1] = "fence" /\ s[2] = "json"
\* text.endswith(fence)
ends_with_fence(s) == Len(s) >= 1 /\ s[Len(s)] = "fence"

\* main.py:68-72: strip, then cut the leading and the trailing fence marker
strip_fences(text) ==
    LET t1 == strip(text)
        t2 == IF starts_with_json_fence(t1) THEN Drop(t1, 2) ELSE t1
    IN  IF ends_with_fence(t2) THEN DropLast(t2, 1) ELSE t2

\* json.loads(text): one JSON value, white space allowed around it
json_parses(text) == strip(text) \in {<<"obj">>, <<"arr">>}

\* the answer of the language model, once parsed
ParsedObject ==
    [kind |-> "result", summary |-> "summary text",
     action_items |-> <<"item">>, topics |-> <<"topic">>]

\* main.py:46 and main.py:78: the two fallback results
Degraded(summary) ==
    [kind |-> "result", summary |-> summary, action_items |-> <<>>, topics |-> <<>>]

\* analyze_transcript without the guard of main.py:45
analyze_transcript_unguarded(client, reply) ==
    IF reply.kind = "error"
    THEN Degraded("Analysis failed: " \o reply.why)
    ELSE LET text == strip_fences(reply.text)
         IN  IF ~json_parses(text)
             THEN Degraded("Analysis failed: JSONDecodeError")
             ELSE IF strip(text) # <<"obj">>
             THEN Degraded("Analysis failed: AttributeError")
             ELSE ParsedObject

\* analyze_transcript with json.loads outside the try block
analyze_transcript_parse_raises(client, reply) ==
    IF ~client
    THEN Degraded("No Anthropic API key configured")
    ELSE IF reply.kind = "error"
    THEN Degraded("Analysis failed: " \o reply.why)
    ELSE LET text == strip_fences(reply.text)
         IN  IF ~json_parses(text)
             THEN [kind |-> "raise"]
             ELSE IF strip(text) # <<"obj">>
             THEN Degraded("Analysis failed: AttributeError")
             ELSE ParsedObject

\* main.py:43-78
analyze_transcript(client, reply) ==
    IF ~client
    THEN Degraded("No Anthropic API key configured")
    ELSE IF reply.kind = "error"
    THEN Degraded("Analysis failed: " \o reply.why)
    ELSE LET text == strip_fences(reply.text)
         IN  IF ~json_parses(text)
             THEN Degraded("Analysis failed: JSONDecodeError")
             ELSE IF strip(text) # <<"obj">>
             THEN Degraded("Analysis failed: AttributeError")  \* result.get on a list
             ELSE ParsedObject

\* what analyze_transcript can return, over every reply of the provider
AnalysesWithClient == {analyze_transcript(TRUE, reply) : reply \in ProviderReplies}
AnalysesWithoutClient == {analyze_transcript(FALSE, reply) : reply \in ProviderReplies}
Analyses(client) == IF client THEN AnalysesWithClient ELSE AnalysesWithoutClient

\* main.py:81-136
main_post_to_slack(client, call_info, analysis, outcome) ==
    IF ~client
    THEN [called |-> TRUE, sent |-> FALSE, ok |-> FALSE, analysis |-> analysis]
    ELSE IF Get(call_info, "participants", List(<<>>)).t \notin {"str", "list"}
    THEN \* joining the participants raised while the blocks were built
         [called |-> TRUE, sent |-> FALSE, ok |-> FALSE, analysis |-> analysis]
    ELSE [called |-> TRUE, sent |-> TRUE, ok |-> (outcome = "ok"), analysis |-> analysis]

\* main.py:174-177
main_result(success, analysis) ==
    IF success
    THEN Reply(200, "processed", "-", analysis)
    ELSE Reply(500, "error", "Failed to post to Slack", NoAnalysis)

\* main.py:150-181, the whole handler (it shares nothing with other requests)
webhook(r) ==
    /\ program = "main"
    /\ pc[r] = "idle"
    /\ pc' = [pc EXCEPT ![r] = "done"]
    /\ \E body \in MainBodies : \E parsed \in get_json(body) :
        /\ data' = [data EXCEPT ![r] = body]
        /\ IF parsed = "raise" \/ parsed = "none"
           THEN \* get_json raised, or data.get on None raised at line 155
                /\ response' = [response EXCEPT ![r] = Reply(500, "-", "exception", NoAnalysis)]
                /\ notifier' = notifier
           ELSE IF EmptyDict(body)
           THEN /\ response' = [response EXCEPT ![r] = Reply(400, "-", "No JSON body", NoAnalysis)]
                /\ notifier' = notifier
           ELSE IF Falsy(Get(body, "transcript", Str("")))
           THEN /\ response' = [response EXCEPT ![r] = Reply(400, "-", "No transcript", NoAnalysis)]
                /\ notifier' = notifier
           ELSE \E analysis \in Analyses(ANTHROPIC_API_KEY) : \E outcome \in SlackOutcomes :
                IF analysis.kind = "raise"
                THEN /\ response' = [response EXCEPT ![r] = Reply(500, "-", "exception", NoAnalysis)]
                     /\ notifier' = notifier
                ELSE LET sent == main_post_to_slack(SLACK_BOT_TOKEN, body, analysis, outcome)
                     IN  /\ notifier' = [notifier EXCEPT ![r] = sent]
                         /\ response' = [response EXCEPT ![r] = main_result(sent.ok, analysis)]
    /\ UNCHANGED <<config, processed_calls, health_response>>

\* main.py:139-147 (the timestamp is left out)
main_health_body(api_key, bot_token) ==
    [status |-> "healthy", anthropic_configured |-> api_key, slack_configured |-> bot_token]

main_health ==
    /\ program = "main"
    /\ health_response' = main_health_body(ANTHROPIC_API_KEY, SLACK_BOT_TOKEN)
    /\ UNCHANGED <<config, processed_calls, pc, data, response, notifier>>

(* ---------------------------- specification ---------------------------- *)
Init ==
    /\ program \in {"app", "main"}
    /\ SLACK_WEBHOOK_URL \in (IF program = "app" THEN BOOLEAN ELSE {FALSE})
    /\ ANTHROPIC_API_KEY \in (IF program = "main" THEN BOOLEAN ELSE {FALSE})
    /\ SLACK_BOT_TOKEN \in (IF program = "main" THEN BOOLEAN ELSE {FALSE})
    /\ processed_calls = {}
    /\ pc = [r \in Reqs |-> "idle"]
    /\ data = [r \in Reqs |-> NoBody]
    /\ response = [r \in Reqs |-> NoResponse]
    /\ notifier = [r \in Reqs |-> NotCalled]
    /\ health_response = NoHealth

Next ==
    \/ \E r \in Reqs : fathom_webhook_test(r)
    \/ \E r \in Reqs : fathom_webhook_insert(r)
    \/ \E r \in Reqs : fathom_webhook_notify(r)
    \/ app_health
    \/ \E r \in Reqs : webhook(r)
    \/ main_health

Spec == Init /\ [][Next]_vars

(* ---------------------------- vocabulary of the claims ----------------- *)
Done(r) == pc[r] = "done"

\* the body is a JSON object with at least one member
IsEvent(d) == d.kind = "object" /\ \E k \in Keys : d[k] # Absent

\* a call.completed event carrying call id c
CompletionFor(d, c) ==
    IsEvent(d) /\ d.event = Str("call.completed") /\ d.call_id = CallId(c)

\* unparseable JSON, an empty body, or JSON without call_id
Malformed(d) == d.kind # "object" \/ d.call_id = Absent

\* the requests that invoked the Notifier for call id c
Notified(c) == {r \in Reqs : notifier[r].called /\ data[r].call_id = CallId(c)}

\* the answered deliveries of the (well-formed) completion event for call id c
Delivered(c) == {r \in Reqs : Done(r) /\ data[r] = CompletedEvent(c)}

\* the deliveries of a completion event for call id c still being served
InFlight(c) == {r \in Reqs : pc[r] \in {"insert", "notify"} /\ CompletionFor(data[r], c)}

IsDuplicateAnswer(r) == response[r].code = 200 /\ response[r].status = "duplicate"

\* the Notifier has no credential: no webhook URL (app.py), no bot token (main.py)
NotifierUnconfigured ==
    IF program = "app" THEN ~SLACK_WEBHOOK_URL ELSE ~SLACK_BOT_TOKEN

(* ---------------------------- C1 --------------------------------------- *)
\* C1: once the deliveries of the same call.completed event for a call id
\* have been answered, the Notifier was invoked exactly once for that id, by
\* one delivery, and every other delivery was answered 200 "duplicate"
\* without invoking it.
C1_NotifiedExactlyOnce ==
    \A c \in CallIds :
        (Delivered(c) # {} /\ InFlight(c) = {}) =>
            /\ Cardinality(Notified(c)) = 1
            /\ \A r \in Delivered(c) : r \in Notified(c) \/ IsDuplicateAnswer(r)

(* ---------------------------- C2 --------------------------------------- *)
\* the deliveries that passed the duplicate check of app.py for call id c
PassedCheck(c) ==
    {r \in Reqs : /\ CompletionFor(data[r], c)
                  /\ \/ pc[r] \in {"insert", "notify"}
                     \/ Done(r) /\ ~IsDuplicateAnswer(r)}

\* C2: in app.py, of the requests carrying the same call_id, however their
\* steps interleave, at most one passes the duplicate check (one non-duplicate
\* outcome, the others duplicates).
C2_OneNonDuplicate ==
    program = "app" => \A c \in CallIds : Cardinality(PassedCheck(c)) <= 1

(* ---------------------------- C3 --------------------------------------- *)
\* C3: every answered request with a malformed body (unparseable JSON, an
\* empty body, JSON without call_id) was answered 400, invoked neither
\* Analyzer nor Notifier and left nothing in ProcessedSet.
C3_MalformedRejected ==
    \A r \in Reqs :
        (Done(r) /\ Malformed(data[r])) =>
            /\ response[r].code = 400
            /\ ~notifier[r].called
            /\ Null \notin processed_calls

(* ---------------------------- shared steps ----------------------------- *)
\* request r is taken up in this step (its handler starts)
Starts(r) == pc[r] = "idle" /\ pc'[r] # "idle"

\* nothing ever leaves ProcessedSet
KeepsMarked == processed_calls \subseteq processed_calls'

\* in app.py a completion event whose call_id is in ProcessedSet when its
\* handler starts is answered 200 "duplicate" at once, with no downstream work
LaterIsDuplicate ==
    \A r \in Reqs :
        (/\ program = "app"
         /\ Starts(r)
         /\ IsEvent(data'[r])
         /\ data'[r].event = Str("call.completed")
         /\ Get(data'[r], "call_id", Null) \in processed_calls)
        => /\ pc'[r] = "done"
           /\ response'[r] = Reply(200, "duplicate", "-", NoAnalysis)
           /\ notifier' = notifier
           /\ processed_calls' = processed_calls

(* ---------------------------- C4 --------------------------------------- *)
OtherEvent(d) == IsEvent(d) /\ d.event # Str("call.completed")

C4_IgnoredStep ==
    \A r \in Reqs :
        (program = "app" /\ Starts(r) /\ OtherEvent(data'[r])) =>
            /\ pc'[r] = "done"
            /\ response'[r] = Reply(200, "ignored", "-", NoAnalysis)
            /\ processed_calls' = processed_calls
            /\ notifier' = notifier

NotifierFailed(r) == Done(r) /\ notifier[r].called /\ ~notifier[r].ok

IsDegraded(a) == a.kind = "result" /\ a.action_items = <<>> /\ a.topics = <<>>

AnalyzerFails(reply) ==
    reply.kind = "error" \/ ~json_parses(strip_fences(reply.text))

FailureSummaries ==
    {"Analysis failed: APIConnectionError", "Analysis failed: APIStatusError",
     "Analysis failed: JSONDecodeError"}

\* for every reply on which the Analyzer fails, analyze_transcript returns a
\* result naming the failure, with empty lists
AnalyzerDegradesOnFailure ==
    \A reply \in ProviderReplies :
        AnalyzerFails(reply) =>
            LET a == analyze_transcript(TRUE, reply)
            IN  IsDegraded(a) /\ a.summary \in FailureSummaries

\* main.py took the event up to analysis: an object with a transcript
Analysed(r) ==
    program = "main" /\ Done(r) /\ IsEvent(data[r]) /\ ~Falsy(data[r].transcript)

\* C8: on every failing Analyzer outcome analyze_transcript returns a degraded
\* result instead of raising; the request then invokes the Notifier with it,
\* and the answer is 500 only when the Notifier reported failure.
C8_AnalyzerNeverRaises ==
    /\ AnalyzerDegradesOnFailure
    /\ \A r \in Reqs :
        Analysed(r) =>
            /\ notifier[r].called
            /\ notifier[r].analysis.kind = "result"
            /\ notifier[r].ok => response[r].code = 200
            /\ response[r].code = 500 => ~notifier[r].ok

C8_Witness ==
    \E r \in Reqs :
        /\ Analysed(r)
        /\ notifier[r].analysis = Degraded("Analysis failed: JSONDecodeError")
        /\ notifier[r].ok
        /\ response[r].code = 200

(* ---------------------------- C9 --------------------------------------- *)
\* request r inserts its call_id in this step
Inserts(r) == pc[r] = "insert" /\ pc'[r] # "insert"

C9_HealthStep ==
    /\ health_response' # health_response =>
        /\ processed_calls' = processed_calls
        /\ program = "app" =>
            health_response'.processed_calls = Cardinality(processed_calls)
    /\ processed_calls' # processed_calls => \E r \in Reqs : Inserts(r)
    /\ \A r \in Reqs :
        /\ (Inserts(r) /\ call_id_of(data[r]) \notin processed_calls) =>
                Cardinality(processed_calls') = Cardinality(processed_calls) + 1
        /\ (Starts(r) /\ pc'[r] = "done") => processed_calls' = processed_calls

FaultedAfterInsert(r) ==
    program = "app" /\ Done(r) /\ data[r].kind = "object" /\ response[r].code = 500

\* C10: in app.py a request that faults with 500 after the insert has invoked
\* no Notifier and its call_id stays in ProcessedSet; when every request that
\* passed the duplicate check for a call_id faulted, no Notifier was invoked
\* for it; nothing leaves ProcessedSet and a delivery taken up later is
\* answered "duplicate" without notifying.
C10_FaultKeepsMark ==
    /\ [](/\ \A r \in Reqs :
               FaultedAfterInsert(r) =>
                   /\ call_id_of(data[r]) \in processed_calls
                   /\ ~notifier[r].called
          /\ \A c \in CallIds :
               (program = "app" /\ \A r \in PassedCheck(c) : FaultedAfterInsert(r))
                   => Notified(c) = {})
    /\ [][KeepsMarked /\ LaterIsDuplicate]_vars

C10_Witness ==
    \E r1, r2 \in Reqs :
        /\ FaultedAfterInsert(r1)
        /\ data[r1] = [CompletedEvent(1) EXCEPT !.date = Null]
        /\ data[r2] = CompletedEvent(1)
        /\ IsDuplicateAnswer(r2)
        /\ Notified(1) = {}
====
